---- MODULE Spec2Model ----
(***************************************************************************)
(* px2: a stack language.  scanner.rs turns the source bytes into tokens,  *)
(* compiler.rs checks every token against a compile-time type stack and    *)
(* appends one op per accepted token to the VM's op list, and vm.rs runs   *)
(* the op list on a value stack.                                           *)
(*                                                                         *)
(* The source is a sequence of bytes, each byte a one-character string     *)
(* ("xC3", "xA9", "xD7", "x90" name the bytes 0xC3, 0xA9, 0xD7, 0x90).     *)
(* i64 is modelled with IntBits bits instead of 64.                        *)
(***************************************************************************)
EXTENDS Integers, Sequences, FiniteSets, TLC

\* width of the VM's signed integer (i64 in vm.rs, scaled down)
IntBits == 5
\* the longest source built from the lexicon, in words
MaxWords == 3

RECURSIVE Pow2(_)
Pow2(n) == IF n = 0 THEN 1 ELSE 2 * Pow2(n - 1)

MaxInt == Pow2(IntBits - 1) - 1
MinInt == 0 - Pow2(IntBits - 1)

Last(s) == s[Len(s)]
Front(s) == SubSeq(s, 1, Len(s) - 1)

(***************************************************************************)
(* Bytes and their classes                                                 *)
(***************************************************************************)
AsciiDigits == {"0", "1", "2", "3", "4", "5", "6", "7", "8", "9"}

AsciiLetters ==
    {"a", "b", "c", "d", "e", "f", "g", "h", "i", "j", "k", "l", "m",
     "n", "o", "p", "q", "r", "s", "t", "u", "v", "w", "x", "y", "z",
     "D", "E", "X"}

\* bytes 0x80..0xBF: they never start a character of a UTF-8 string
ContinuationBytes == {"xA9", "x90"}

\* u8::is_ascii_digit
is_ascii_digit(c) == c \in AsciiDigits

\* u8::is_ascii_alphanumeric
is_ascii_alphanumeric(c) == c \in AsciiDigits \cup AsciiLetters

\* char::is_alphabetic of `byte as char`: the byte 0xC3 is the char U+00C3,
\* a letter; 0xD7 is U+00D7, the multiplication sign; 0xA9 and 0x90 are not
\* letters
is_alphabetic(c) == c \in AsciiLetters \cup {"xC3"}

DigitValue(c) ==
    CASE c = "0" -> 0 [] c = "1" -> 1 [] c = "2" -> 2 [] c = "3" -> 3
      [] c = "4" -> 4 [] c = "5" -> 5 [] c = "6" -> 6 [] c = "7" -> 7
      [] c = "8" -> 8 [] c = "9" -> 9

\* str::is_char_boundary, which every str slice asserts of both its ends
is_char_boundary(code, i) ==
    \/ i = 0
    \/ i = Len(code)
    \/ i < Len(code) /\ code[i + 1] \notin ContinuationBytes

(***************************************************************************)
(* scanner.rs                                                              *)
(***************************************************************************)
KEYWORDS ==
    { [text |-> <<"d", "u", "p">>,                     token_type |-> "Dup"],
      [text |-> <<"d", "r", "o", "p">>,                token_type |-> "Drop"],
      [text |-> <<"f", "a", "l", "s", "e">>,           token_type |-> "False"],
      [text |-> <<"o", "v", "e", "r">>,                token_type |-> "Over"],
      [text |-> <<"p", "r", "i", "n", "t", "l", "n">>, token_type |-> "PrintLn"],
      [text |-> <<"r", "o", "t">>,                     token_type |-> "Rot"],
      [text |-> <<"s", "w", "a", "p">>,                token_type |-> "Swap"],
      [text |-> <<"t", "r", "u", "e">>,                token_type |-> "True"] }

TokenType ==
    {"Dup", "Drop", "EndOfFile", "Error", "False", "Identifier", "Int", "Minus",
     "Over", "Plus", "PrintLn", "Rot", "Slash", "Star", "Swap", "True"}

\* Scanner::new
ScannerNew == [start |-> 0, current |-> 0, line |-> 1, column |-> 1]

\* the token no call has returned yet
NoToken ==
    [token_type |-> "None", start |-> 0, length |-> 0, line |-> 0, column |-> 0,
     text |-> <<>>]

\* Scanner::is_at_end
is_at_end(code, sc) == sc.current >= Len(code)

\* Scanner::advance (the scanner after it; the byte it returns is
\* code[sc.current + 1])
advance(code, sc) ==
    IF is_at_end(code, sc) THEN sc
    ELSE [sc EXCEPT !.current = @ + 1, !.column = @ + 1]

\* Scanner::skip_whitespace
RECURSIVE skip_whitespace(_, _)
skip_whitespace(code, sc) ==
    IF is_at_end(code, sc) THEN sc
    ELSE LET c == code[sc.current + 1] IN
         CASE c = "\n" ->
                skip_whitespace(code,
                    [advance(code, sc) EXCEPT !.line = @ + 1, !.column = 1])
           [] c \in {" ", "\r"} -> skip_whitespace(code, advance(code, sc))
           [] OTHER -> sc

\* make_token slicing the text one byte short
make_token_short_text(code, sc, token_type) ==
    LET length == sc.current - sc.start IN
    [panic |-> ~(is_char_boundary(code, sc.start) /\ is_char_boundary(code, sc.current)),
     tok   |-> [token_type |-> token_type,
                start      |-> sc.start,
                length     |-> length,
                line       |-> sc.line,
                column     |-> sc.column - length,
                text       |-> SubSeq(code, sc.start + 1, sc.current - 1)]]

\* Scanner::make_token: the token, and whether slicing the text panics
make_token(code, sc, token_type) ==
    LET length == sc.current - sc.start IN
    [panic |-> ~(is_char_boundary(code, sc.start) /\ is_char_boundary(code, sc.current)),
     tok   |-> [token_type |-> token_type,
                start      |-> sc.start,
                length     |-> length,
                line       |-> sc.line,
                column     |-> sc.column - length,
                text       |-> SubSeq(code, sc.start + 1, sc.current)]]

\* Scanner::error_token
error_token(code, sc) ==
    [panic |-> FALSE,
     tok   |-> [token_type |-> "Error",
                start      |-> sc.start,
                length     |-> 1,
                line       |-> sc.line,
                column     |-> sc.column,
                text       |-> <<"E", "r", "r", "o", "r">>]]

\* the loop of Scanner::make_number
RECURSIVE number_run(_, _)
number_run(code, sc) ==
    IF ~is_at_end(code, sc) /\ is_ascii_digit(code[sc.current + 1])
    THEN number_run(code, advance(code, sc))
    ELSE sc

\* the loop of make_identifier stopping at the first byte that is no letter
RECURSIVE identifier_run_letters(_, _)
identifier_run_letters(code, sc) ==
    IF ~is_at_end(code, sc) /\ code[sc.current + 1] \in AsciiLetters
    THEN identifier_run_letters(code, advance(code, sc))
    ELSE sc

\* the loop of Scanner::make_identifier
RECURSIVE identifier_run(_, _)
identifier_run(code, sc) ==
    IF ~is_at_end(code, sc)
       /\ (is_ascii_alphanumeric(code[sc.current + 1]) \/ code[sc.current + 1] = "_")
    THEN identifier_run(code, advance(code, sc))
    ELSE sc

\* Scanner::make_number
make_number(code, sc) ==
    LET s == number_run(code, sc) IN
    [sc |-> s] @@ make_token(code, s, "Int")

\* Scanner::make_identifier
make_identifier(code, sc) ==
    LET s    == identifier_run(code, sc)
        text == SubSeq(code, s.start + 1, s.current)
        kw   == {k \in KEYWORDS : k.text = text}
        t    == IF kw = {} THEN "Identifier" ELSE (CHOOSE k \in kw : TRUE).token_type
    IN  [sc |-> s] @@ make_token(code, s, t)

\* scan_token returning the Error token for a byte it has looked at but
\* not consumed
scan_token_peek(code, sc0) ==
    LET sc1 == skip_whitespace(code, sc0)
        sc2 == [sc1 EXCEPT !.start = sc1.current]
    IN  IF is_at_end(code, sc2)
        THEN [sc |-> sc2] @@ make_token(code, sc2, "EndOfFile")
        ELSE LET current_char == code[sc2.current + 1]
                 sc3 == advance(code, sc2)
             IN  CASE is_ascii_digit(current_char) -> make_number(code, sc3)
                   [] is_alphabetic(current_char) -> make_identifier(code, sc3)
                   [] current_char = "+" -> [sc |-> sc3] @@ make_token(code, sc3, "Plus")
                   [] current_char = "-" -> [sc |-> sc3] @@ make_token(code, sc3, "Minus")
                   [] current_char = "*" -> [sc |-> sc3] @@ make_token(code, sc3, "Star")
                   [] current_char = "/" -> [sc |-> sc3] @@ make_token(code, sc3, "Slash")
                   [] OTHER -> [sc |-> sc2] @@ error_token(code, sc2)

\* Scanner::scan_token: the scanner after the call, the token, and whether
\* the call panicked instead of returning
scan_token(code, sc0) ==
    LET sc1 == skip_whitespace(code, sc0)
        sc2 == [sc1 EXCEPT !.start = sc1.current]
    IN  IF is_at_end(code, sc2)
        THEN [sc |-> sc2] @@ make_token(code, sc2, "EndOfFile")
        ELSE LET current_char == code[sc2.current + 1]
                 sc3 == advance(code, sc2)
             IN  CASE is_ascii_digit(current_char) -> make_number(code, sc3)
                   [] is_alphabetic(current_char) -> make_identifier(code, sc3)
                   [] current_char = "+" -> [sc |-> sc3] @@ make_token(code, sc3, "Plus")
                   [] current_char = "-" -> [sc |-> sc3] @@ make_token(code, sc3, "Minus")
                   [] current_char = "*" -> [sc |-> sc3] @@ make_token(code, sc3, "Star")
                   [] current_char = "/" -> [sc |-> sc3] @@ make_token(code, sc3, "Slash")
                   [] OTHER -> [sc |-> sc3] @@ error_token(code, sc3)

(***************************************************************************)
(* vm.rs: values and ops                                                   *)
(***************************************************************************)
DataType == {"Bool", "Int"}

\* Value::from_int
from_int(value) == [data_type |-> "Int", data |-> value]

\* Value::from_bool: the union holds the bool's byte, 0 or 1
from_bool(value) == [data_type |-> "Bool", data |-> IF value THEN 1 ELSE 0]

OpNames ==
    {"Add", "Divide", "Drop", "Dup", "Multiply", "Over", "Push", "PrintLn", "Rot",
     "Subtract", "Swap"}

\* the variants of Op without a payload, and Op::Push(value)
Op(name) == [op |-> name]
OpPush(value) == [op |-> "Push", value |-> value]

(***************************************************************************)
(* compiler.rs                                                             *)
(***************************************************************************)
\* Vec::pop, which returns None on an empty vector and changes nothing
VecPop(s) == IF s = <<>> THEN s ELSE Front(s)

\* the top entry moved below the k - 1 entries under it, the rotation the
\* other way round
MoveFromTop(s, k) ==
    LET i == Len(s) - k + 1 IN
    SubSeq(s, 1, i - 1) \o <<s[Len(s)]>> \o SubSeq(s, i, Len(s) - 1)

\* Vec::remove(len - k) followed by push: the k-th entry from the top moves
\* to the top
MoveToTop(s, k) ==
    LET i == Len(s) - k + 1 IN
    SubSeq(s, 1, i - 1) \o SubSeq(s, i + 1, Len(s)) \o <<s[i]>>

\* push_op with the arithmetic ops popping both operands and pushing no
\* result type
push_op_stack_pop_two(stack, op) ==
    CASE op.op \in {"Add", "Divide", "Subtract", "Multiply"} ->
            [panic |-> FALSE, stack |-> VecPop(VecPop(stack))]
      [] op.op \in {"Drop", "PrintLn"} -> [panic |-> FALSE, stack |-> VecPop(stack)]
      [] op.op = "Dup" ->
            IF stack = <<>> THEN [panic |-> TRUE, stack |-> stack]
            ELSE [panic |-> FALSE, stack |-> Append(stack, Last(stack))]
      [] op.op = "Over" ->
            IF Len(stack) < 2 THEN [panic |-> TRUE, stack |-> stack]
            ELSE [panic |-> FALSE, stack |-> Append(stack, stack[Len(stack) - 1])]
      [] op.op = "Push" ->
            [panic |-> FALSE, stack |-> Append(stack, op.value.data_type)]
      [] op.op = "Rot" ->
            IF Len(stack) < 3 THEN [panic |-> TRUE, stack |-> stack]
            ELSE [panic |-> FALSE, stack |-> MoveToTop(stack, 3)]
      [] op.op = "Swap" ->
            IF Len(stack) < 2 THEN [panic |-> TRUE, stack |-> stack]
            ELSE [panic |-> FALSE, stack |-> MoveToTop(stack, 2)]

\* push_op with PrintLn left out of the arm that pops
push_op_stack_println_keeps(stack, op) ==
    CASE op.op \in {"Add", "Divide", "Subtract", "Multiply", "Drop"} ->
            [panic |-> FALSE, stack |-> VecPop(stack)]
      [] op.op = "PrintLn" -> [panic |-> FALSE, stack |-> stack]
      [] op.op = "Dup" ->
            IF stack = <<>> THEN [panic |-> TRUE, stack |-> stack]
            ELSE [panic |-> FALSE, stack |-> Append(stack, Last(stack))]
      [] op.op = "Over" ->
            IF Len(stack) < 2 THEN [panic |-> TRUE, stack |-> stack]
            ELSE [panic |-> FALSE, stack |-> Append(stack, stack[Len(stack) - 1])]
      [] op.op = "Push" ->
            [panic |-> FALSE, stack |-> Append(stack, op.value.data_type)]
      [] op.op = "Rot" ->
            IF Len(stack) < 3 THEN [panic |-> TRUE, stack |-> stack]
            ELSE [panic |-> FALSE, stack |-> MoveToTop(stack, 3)]
      [] op.op = "Swap" ->
            IF Len(stack) < 2 THEN [panic |-> TRUE, stack |-> stack]
            ELSE [panic |-> FALSE, stack |-> MoveToTop(stack, 2)]

\* the match of CompilerContext::push_op on the type stack: the stack after
\* it, and whether an unwrap, an index or a remove panicked
push_op_stack(stack, op) ==
    CASE op.op \in {"Add", "Divide", "Subtract", "Multiply", "Drop", "PrintLn"} ->
            [panic |-> FALSE, stack |-> VecPop(stack)]
      [] op.op = "Dup" ->
            IF stack = <<>> THEN [panic |-> TRUE, stack |-> stack]
            ELSE [panic |-> FALSE, stack |-> Append(stack, Last(stack))]
      [] op.op = "Over" ->
            IF Len(stack) < 2 THEN [panic |-> TRUE, stack |-> stack]
            ELSE [panic |-> FALSE, stack |-> Append(stack, stack[Len(stack) - 1])]
      [] op.op = "Push" ->
            [panic |-> FALSE, stack |-> Append(stack, op.value.data_type)]
      [] op.op = "Rot" ->
            IF Len(stack) < 3 THEN [panic |-> TRUE, stack |-> stack]
            ELSE [panic |-> FALSE, stack |-> MoveToTop(stack, 3)]
      [] op.op = "Swap" ->
            IF Len(stack) < 2 THEN [panic |-> TRUE, stack |-> stack]
            ELSE [panic |-> FALSE, stack |-> MoveToTop(stack, 2)]

\* push_op inserting at the front of the op list
vm_push_op_front(op_list, op) == <<op>> \o op_list

\* VM::push_op
vm_push_op(op_list, op) == Append(op_list, op)

\* CompilerContext::push_op on the compiler's stack and the VM's op list;
\* errs are the messages handed to error(), none here
push_op(stack, op_list, op) ==
    LET r == push_op_stack(stack, op) IN
    IF r.panic
    THEN [panic |-> TRUE, stack |-> stack, op_list |-> op_list, errs |-> <<>>]
    ELSE [panic |-> FALSE, stack |-> r.stack, op_list |-> vm_push_op(op_list, op),
          errs |-> <<>>]

\* a handler that has popped the entry it inspected when it reports
Rejected_after_pop(stack, op_list, msgs) ==
    [panic |-> FALSE, stack |-> VecPop(stack), op_list |-> op_list, errs |-> msgs]

\* a handler that calls error() with each of msgs and emits nothing
Rejected(stack, op_list, msgs) ==
    [panic |-> FALSE, stack |-> stack, op_list |-> op_list, errs |-> msgs]

\* the parse refusing the largest value as well
RECURSIVE parse_digits_exclusive(_, _, _)
parse_digits_exclusive(text, i, acc) ==
    IF i > Len(text) THEN [ok |-> TRUE, value |-> acc, kind |-> "None"]
    ELSE IF ~is_ascii_digit(text[i]) THEN [ok |-> FALSE, value |-> 0, kind |-> "InvalidDigit"]
    ELSE IF acc * 10 + DigitValue(text[i]) >= MaxInt
         THEN [ok |-> FALSE, value |-> 0, kind |-> "PosOverflow"]
    ELSE parse_digits_exclusive(text, i + 1, acc * 10 + DigitValue(text[i]))

\* str::parse::<i64> of a token's text: the value or the IntErrorKind
RECURSIVE parse_digits(_, _, _)
parse_digits(text, i, acc) ==
    IF i > Len(text) THEN [ok |-> TRUE, value |-> acc, kind |-> "None"]
    ELSE IF ~is_ascii_digit(text[i]) THEN [ok |-> FALSE, value |-> 0, kind |-> "InvalidDigit"]
    ELSE IF acc * 10 + DigitValue(text[i]) > MaxInt
         THEN [ok |-> FALSE, value |-> 0, kind |-> "PosOverflow"]
    ELSE parse_digits(text, i + 1, acc * 10 + DigitValue(text[i]))

parse_i64(text) ==
    IF text = <<>> THEN [ok |-> FALSE, value |-> 0, kind |-> "Empty"]
    ELSE parse_digits(text, 1, 0)

\* the message int() picks for an IntErrorKind
IntErrorMessage(kind) ==
    CASE kind = "Empty" -> "tried to parse int from empty string"
      [] kind = "InvalidDigit" -> "invalid digit found in string"
      [] kind = "PosOverflow" -> "positive integer out of range"
      [] kind = "NegOverflow" -> "negative integer out of range"
      [] kind = "Zero" -> "value cannot be zero"
      [] OTHER -> "unexpected error"

\* int()
int(token, stack, op_list) ==
    LET parse_result == parse_i64(token.text) IN
    IF ~parse_result.ok
    THEN Rejected(stack, op_list, << <<IntErrorMessage(parse_result.kind)>> >>)
    ELSE push_op(stack, op_list, OpPush(from_int(parse_result.value)))

\* the arithmetic check without the return after the report of the top
\* entry, so that the entry below is checked and reported as well
arithmetic_no_return(stack, op_list, what, op) ==
    LET len == Len(stack) IN
    IF len < 2
    THEN Rejected(stack, op_list,
            << <<"expected 2 values on the stack to perform", what, "found", ToString(len)>> >>)
    ELSE LET top == IF stack[len] # "Int"
                    THEN << <<"expected integer on top of the stack to perform", what,
                              "found", stack[len]>> >>
                    ELSE <<>>
             below == IF stack[len - 1] # "Int"
                      THEN << <<"expected integer one down from the top of the stack to perform",
                                what, "found", stack[len - 1]>> >>
                      ELSE <<>>
         IN  IF top \o below # <<>> THEN Rejected(stack, op_list, top \o below)
             ELSE push_op(stack, op_list, op)

\* the arithmetic check without the check of the entry below the top
arithmetic_top_only(stack, op_list, what, op) ==
    LET len == Len(stack) IN
    IF len < 2
    THEN Rejected(stack, op_list,
            << <<"expected 2 values on the stack to perform", what, "found", ToString(len)>> >>)
    ELSE IF stack[len] # "Int"
    THEN Rejected(stack, op_list,
            << <<"expected integer on top of the stack to perform", what,
                 "found", stack[len]>> >>)
    ELSE push_op(stack, op_list, op)

\* the body shared by add(), subtract(), multiply() and divide(): what is
\* the name of the operation in the messages, op the op emitted
arithmetic(stack, op_list, what, op) ==
    LET len == Len(stack) IN
    IF len < 2
    THEN Rejected(stack, op_list,
            << <<"expected 2 values on the stack to perform", what, "found", ToString(len)>> >>)
    ELSE IF stack[len] # "Int"
    THEN Rejected(stack, op_list,
            << <<"expected integer on top of the stack to perform", what,
                 "found", stack[len]>> >>)
    ELSE IF stack[len - 1] # "Int"
    THEN Rejected(stack, op_list,
            << <<"expected integer one down from the top of the stack to perform", what,
                 "found", stack[len - 1]>> >>)
    ELSE push_op(stack, op_list, op)

\* add()
add(stack, op_list) == arithmetic(stack, op_list, "addition", Op("Add"))

\* subtract()
subtract(stack, op_list) == arithmetic(stack, op_list, "subtraction", Op("Subtract"))

\* multiply()
multiply(stack, op_list) == arithmetic(stack, op_list, "multiplication", Op("Multiply"))

\* divide()
divide(stack, op_list) == arithmetic(stack, op_list, "division", Op("Divide"))

\* println()
println(stack, op_list) ==
    IF stack = <<>>
    THEN Rejected(stack, op_list, << <<"nothing on stack to print">> >>)
    ELSE push_op(stack, op_list, Op("PrintLn"))

\* the depth check with <= for <
need_entries_strict(stack, op_list, need, msg, op) ==
    IF Len(stack) <= need
    THEN Rejected(stack, op_list, << msg >>)
    ELSE push_op(stack, op_list, op)

\* the arms of compile()'s match that need a number of entries on the stack
need_entries(stack, op_list, need, msg, op) ==
    IF Len(stack) < need
    THEN Rejected(stack, op_list, << msg >>)
    ELSE push_op(stack, op_list, op)

\* the match of compile() on the token's type (EndOfFile breaks before it)
compile_token(token, stack, op_list) ==
    LET t == token.token_type IN
    CASE t = "Dup" ->
            need_entries(stack, op_list, 1, <<"no data on the stack to dup">>, Op("Dup"))
      [] t = "Drop" ->
            need_entries(stack, op_list, 1, <<"no data on the stack to drop">>, Op("Drop"))
      [] t = "Error" -> Rejected(stack, op_list, << <<"invalid token">> >>)
      [] t = "False" -> push_op(stack, op_list, OpPush(from_bool(FALSE)))
      [] t = "Int" -> int(token, stack, op_list)
      [] t = "Minus" -> subtract(stack, op_list)
      [] t = "Over" ->
            need_entries(stack, op_list, 2,
                <<"need 2 elements on the stack to perform over but found", ToString(Len(stack))>>,
                Op("Over"))
      [] t = "Plus" -> add(stack, op_list)
      [] t = "PrintLn" -> println(stack, op_list)
      [] t = "Slash" -> divide(stack, op_list)
      [] t = "Rot" ->
            need_entries(stack, op_list, 3,
                <<"need 3 elements on the stack to perform rot but found", ToString(Len(stack))>>,
                Op("Rot"))
      [] t = "Star" -> multiply(stack, op_list)
      [] t = "Swap" ->
            need_entries(stack, op_list, 2,
                <<"need 2 elements on the stack to perform swap but found", ToString(Len(stack))>>,
                Op("Swap"))
      [] t = "True" -> push_op(stack, op_list, OpPush(from_bool(TRUE)))
      [] t = "Identifier" ->
            Rejected(stack, op_list, << <<"identifiers are not implemented yet">> >>)

\* the while loop of get_code_at_line: the index of the first byte of the
\* line, or -1 when code_bytes[str_index] is out of bounds
RECURSIVE line_index(_, _, _, _)
line_index(code, line, curr_line, str_index) ==
    IF ~(curr_line < line) THEN str_index
    ELSE IF str_index >= Len(code) THEN 0 - 1
    ELSE line_index(code, line,
                    IF code[str_index + 1] = "\n" THEN curr_line + 1 ELSE curr_line,
                    str_index + 1)

\* get_code_at_line: the text of the line, or a panic (the index out of
\* bounds, the slice off a char boundary, or find('\n') returning None)
get_code_at_line(line, code) ==
    LET str_index == line_index(code, line, 1, 0) IN
    IF str_index < 0 \/ ~is_char_boundary(code, str_index)
    THEN [panic |-> TRUE, text |-> <<>>]
    ELSE LET code_substr == SubSeq(code, str_index + 1, Len(code))
             found == {i \in 1..Len(code_substr) : code_substr[i] = "\n"}
         IN  IF found = {} THEN [panic |-> TRUE, text |-> <<>>]
             ELSE LET first == CHOOSE i \in found : \A j \in found : i <= j
                  IN  [panic |-> FALSE, text |-> SubSeq(code_substr, 1, first - 1)]

\* error(): the diagnostic written to stderr; when get_code_at_line panics
\* the diagnostic stops after its location line
error(token, code, message) ==
    LET at == get_code_at_line(token.line, code) IN
    [panic |-> at.panic,
     diag  |-> [kind      |-> "Compiler Error",
                text      |-> token.text,
                message   |-> message,
                line      |-> token.line,
                column    |-> token.column,
                complete  |-> ~at.panic,
                code_line |-> at.text,
                spaces    |-> IF at.panic THEN 0 ELSE token.column - 1,
                carets    |-> IF at.panic THEN 0 ELSE token.length]]

\* a line of stderr that is not a diagnostic of error()
PlainLine(kind) ==
    [kind |-> kind, text |-> <<>>, message |-> <<>>, line |-> 0, column |-> 0,
     complete |-> TRUE, code_line |-> <<>>, spaces |-> 0, carets |-> 0]

(***************************************************************************)
(* vm.rs: execution                                                        *)
(***************************************************************************)
IntRange == MinInt..MaxInt

\* two's complement wrap-around of a result to the integer's width
Wrap(x) == ((x - MinInt) % Pow2(IntBits)) + MinInt

\* reading data.int_value of the union: the integer of an Int; of a Bool
\* only the low byte was written, so any integer may be read
int_value(v) == IF v.data_type = "Int" THEN {v.data} ELSE IntRange

\* i64 + i64: a panic when overflow checks are compiled in, else wrapped
i64_add(a, b, overflow_checks) ==
    IF a + b \in IntRange THEN [panic |-> FALSE, fault |-> "none", value |-> a + b]
    ELSE IF overflow_checks THEN [panic |-> TRUE, fault |-> "attempt to add with overflow", value |-> 0]
    ELSE [panic |-> FALSE, fault |-> "none", value |-> Wrap(a + b)]

\* the subtraction with its operands exchanged
i64_sub_exchanged(a, b, overflow_checks) ==
    IF b - a \in IntRange THEN [panic |-> FALSE, fault |-> "none", value |-> b - a]
    ELSE IF overflow_checks
    THEN [panic |-> TRUE, fault |-> "attempt to subtract with overflow", value |-> 0]
    ELSE [panic |-> FALSE, fault |-> "none", value |-> Wrap(b - a)]

\* i64 - i64
i64_sub(a, b, overflow_checks) ==
    IF a - b \in IntRange THEN [panic |-> FALSE, fault |-> "none", value |-> a - b]
    ELSE IF overflow_checks THEN [panic |-> TRUE, fault |-> "attempt to subtract with overflow", value |-> 0]
    ELSE [panic |-> FALSE, fault |-> "none", value |-> Wrap(a - b)]

\* i64 * i64
i64_mul(a, b, overflow_checks) ==
    IF a * b \in IntRange THEN [panic |-> FALSE, fault |-> "none", value |-> a * b]
    ELSE IF overflow_checks THEN [panic |-> TRUE, fault |-> "attempt to multiply with overflow", value |-> 0]
    ELSE [panic |-> FALSE, fault |-> "none", value |-> Wrap(a * b)]

Abs(x) == IF x < 0 THEN 0 - x ELSE x

\* the division rounding toward minus infinity
i64_div_floored(a, b, overflow_checks) ==
    IF b = 0 THEN [panic |-> TRUE, fault |-> "attempt to divide by zero", value |-> 0]
    ELSE IF a = MinInt /\ b = 0 - 1
    THEN [panic |-> TRUE, fault |-> "attempt to divide with overflow", value |-> 0]
    ELSE [panic |-> FALSE, fault |-> "none",
          value |-> IF (a < 0) = (b < 0) THEN Abs(a) \div Abs(b)
                    ELSE 0 - ((Abs(a) + Abs(b) - 1) \div Abs(b))]

\* i64 / i64: the quotient truncated toward zero; a zero divisor and
\* MIN / -1 panic in every build
i64_div(a, b, overflow_checks) ==
    IF b = 0 THEN [panic |-> TRUE, fault |-> "attempt to divide by zero", value |-> 0]
    ELSE IF a = MinInt /\ b = 0 - 1
    THEN [panic |-> TRUE, fault |-> "attempt to divide with overflow", value |-> 0]
    ELSE [panic |-> FALSE, fault |-> "none",
          value |-> IF (a < 0) = (b < 0) THEN Abs(a) \div Abs(b)
                    ELSE 0 - (Abs(a) \div Abs(b))]

\* the decimal digits of a natural number
RECURSIVE Digits(_)
Digits(n) ==
    LET d == <<"0", "1", "2", "3", "4", "5", "6", "7", "8", "9">>[(n % 10) + 1] IN
    IF n < 10 THEN <<d>> ELSE Digits(n \div 10) \o <<d>>

\* impl Display for Value
DisplayValue(v) ==
    IF v.data_type = "Int"
    THEN IF v.data < 0 THEN <<"-">> \o Digits(0 - v.data) ELSE Digits(v.data)
    ELSE IF v.data = 0 THEN <<"f", "a", "l", "s", "e">> ELSE <<"t", "r", "u", "e">>

\* impl Display for Op
DisplayOp(op) ==
    CASE op.op = "Add" -> <<"a", "d", "d">>
      [] op.op = "Subtract" -> <<"s", "u", "b">>
      [] op.op = "Divide" -> <<"d", "i", "v">>
      [] op.op = "Multiply" -> <<"m", "u", "l">>
      [] op.op = "Push" -> <<"p", "u", "s", "h", " ">> \o DisplayValue(op.value)
      [] op.op = "Dup" -> <<"d", "u", "p">>
      [] op.op = "Drop" -> <<"d", "r", "o", "p">>
      [] op.op = "Swap" -> <<"s", "w", "a", "p">>
      [] op.op = "Over" -> <<"o", "v", "e", "r">>
      [] op.op = "Rot" -> <<"r", "o", "t">>
      [] op.op = "PrintLn" -> <<"p", "r", "i", "n", "t", "l", "n">>

\* a line of stdout
OutLine(kind, text) == [kind |-> kind, text |-> text]

\* the outcome of one arm of VM::run's match
Panicked(vstack, why) == [panic |-> TRUE, fault |-> why, vstack |-> vstack, out |-> <<>>]
Stepped(vstack, out) == [panic |-> FALSE, fault |-> "none", vstack |-> vstack, out |-> out]

\* the operator impl of Value an arithmetic op applies
i64_apply(name, a, b, overflow_checks) ==
    CASE name = "Add" -> i64_add(a, b, overflow_checks)
      [] name = "Subtract" -> i64_sub(a, b, overflow_checks)
      [] name = "Multiply" -> i64_mul(a, b, overflow_checks)
      [] name = "Divide" -> i64_div(a, b, overflow_checks)

\* the arms Add, Subtract, Divide and Multiply of VM::run: v1 is popped
\* first, v2 second, and v2 op v1 is pushed
run_binary(vstack, name, overflow_checks) ==
    IF Len(vstack) < 2 THEN {Panicked(vstack, "unwrap on None")}
    ELSE LET v1   == vstack[Len(vstack)]
             v2   == vstack[Len(vstack) - 1]
             rest == SubSeq(vstack, 1, Len(vstack) - 2)
         IN  { LET r == i64_apply(name, a, b, overflow_checks) IN
               IF r.panic THEN Panicked(rest, r.fault)
               ELSE Stepped(Append(rest, from_int(r.value)), <<>>)
               : a \in int_value(v2), b \in int_value(v1) }

\* one iteration of the loop of VM::run: the possible outcomes of op
run_op(vstack, op, overflow_checks) ==
    CASE op.op \in {"Add", "Subtract", "Divide", "Multiply"} ->
            run_binary(vstack, op.op, overflow_checks)
      [] op.op = "Push" -> {Stepped(Append(vstack, op.value), <<>>)}
      [] op.op = "Dup" ->
            IF vstack = <<>> THEN {Panicked(vstack, "unwrap on None")}
            ELSE {Stepped(Append(vstack, Last(vstack)), <<>>)}
      [] op.op = "Drop" -> {Stepped(VecPop(vstack), <<>>)}
      [] op.op = "Over" ->
            IF Len(vstack) < 2 THEN {Panicked(vstack, "index out of bounds")}
            ELSE {Stepped(Append(vstack, vstack[Len(vstack) - 1]), <<>>)}
      [] op.op = "Rot" ->
            IF Len(vstack) < 3 THEN {Panicked(vstack, "index out of bounds")}
            ELSE {Stepped(MoveToTop(vstack, 3), <<>>)}
      [] op.op = "Swap" ->
            IF Len(vstack) < 2 THEN {Panicked(vstack, "index out of bounds")}
            ELSE {Stepped(MoveToTop(vstack, 2), <<>>)}
      [] op.op = "PrintLn" ->
            IF vstack = <<>> THEN {Panicked(vstack, "unwrap on None")}
            ELSE {Stepped(Front(vstack), <<OutLine("println", DisplayValue(Last(vstack)))>>)}

(***************************************************************************)
(* The sources                                                             *)
(***************************************************************************)
W_dup == <<"d", "u", "p">>
W_drop == <<"d", "r", "o", "p">>
W_false == <<"f", "a", "l", "s", "e">>
W_over == <<"o", "v", "e", "r">>
W_println == <<"p", "r", "i", "n", "t", "l", "n">>
W_rot == <<"r", "o", "t">>
W_swap == <<"s", "w", "a", "p">>
W_true == <<"t", "r", "u", "e">>

\* the words the short sources are built from
Lexicon ==
    { <<"1">>, W_true, <<"+">>, <<"/">>, W_dup, W_drop, W_over, W_swap, W_rot,
      W_println, <<"x">> }

\* the words of ws separated by single spaces
RECURSIVE Join(_)
Join(ws) ==
    IF ws = <<>> THEN <<>>
    ELSE IF Len(ws) = 1 THEN ws[1]
    ELSE ws[1] \o <<" ">> \o Join(Tail(ws))

\* every sequence of at most n words of the lexicon
RECURSIVE WordSeqs(_)
WordSeqs(n) ==
    IF n = 0 THEN {<<>>}
    ELSE LET shorter == WordSeqs(n - 1) IN
         shorter \cup {Append(ws, w) : ws \in {x \in shorter : Len(x) = n - 1}, w \in Lexicon}

\* every short source over the lexicon, with and without a final newline
ShortSources ==
    {Join(ws) \o tail : ws \in WordSeqs(MaxWords), tail \in {<<>>, <<"\n">>}}

Max == Digits(MaxInt)
TooBig == Digits(MaxInt + 1)

\* the words that leave the integer n on the stack: a literal, or 0 minus
\* literals, since no literal is negative
Operand(n) ==
    IF n >= 0 THEN <<Digits(n)>>
    ELSE IF n >= 0 - MaxInt THEN << <<"0">>, Digits(0 - n), <<"-">> >>
    ELSE << <<"0">>, Max, <<"-">>, <<"1">>, <<"-">> >>

\* the operands of the arithmetic sources
Operands == {MinInt, MinInt + 1, 0 - 7, 0 - 2, 0 - 1, 0, 1, 2, 7, 10, MaxInt}

\* `a b op println` for every pair of operands and each of + - * /
ArithmeticSources ==
    { Join(Operand(a) \o Operand(b) \o <<op, W_println>>) :
        a \in Operands, b \in Operands, op \in {<<"+">>, <<"-">>, <<"*">>, <<"/">>} }

\* the change of depth a word makes
DepthChange(w) ==
    CASE w \in {W_dup, W_over} -> 1
      [] w \in {W_swap, W_rot} -> 0
      [] OTHER -> 0 - 1

\* n times the word w
RECURSIVE Repeat(_, _)
Repeat(w, n) == IF n <= 0 THEN <<>> ELSE <<w>> \o Repeat(w, n - 1)

\* three literals, two of dup, drop, over, swap, rot, and a println for
\* every value left
ShuffleSources ==
    { Join(<<a, b, c, s1, s2>> \o Repeat(W_println, 3 + DepthChange(s1) + DepthChange(s2))) :
        a \in {<<"1">>, W_true}, b \in {<<"2">>, W_false}, c \in {<<"3">>, W_true},
        s1 \in {W_dup, W_drop, W_over, W_swap, W_rot},
        s2 \in {W_dup, W_drop, W_over, W_swap, W_rot} }

\* the scenarios of the documentation, literals at the end of the range,
\* and the bytes and layouts the lexicon does not hold
Scenarios ==
    { Join(<< <<"3">>, <<"4">>, <<"+">>, W_println >>),
      Join(<< <<"1", "0">>, <<"2">>, <<"/">>, W_println >>),
      Join(<< W_true, W_false, W_println >>),
      Join(<< <<"1">>, <<"+">> >>),
      Join(<< <<"5">>, W_true, <<"+">> >>),
      Join(<< W_true, <<"5">>, <<"+">> >>),
      Join(<< W_true, W_false, <<"*">> >>),
      Join(<< <<"1">>, <<"2">>, W_swap, <<"-">>, W_println >>),
      Join(<< <<"3">>, W_println, <<"+">> >>),
      Join(<< <<"1">>, <<"2">>, <<"3">>, W_rot >>),
      Join(<< W_true, <<"1">>, <<"2">>, <<"+">>, W_println, W_println >>),
      Join(<< <<"1">>, <<"2">>, W_true, <<"-">> >>),
      Join(<< <<"1">>, W_false, <<"2">>, <<"/">> >>),
      Join(<< TooBig, W_println >>),
      Join(<< <<"0">> \o Max, W_println >>),
      Join(<< <<"1">>, <<"2">>, <<"+">>, <<"@">> >>),
      <<"@">>,
      Join(<< <<"1">>, <<"\t">>, W_println >>),
      Join(<< <<"1">>, <<"xC3", "xA9">> >>),
      Join(<< <<"1">>, <<"xD7", "x90">> >>),
      Join(<< <<"1", "2", "d", "u", "p">>, <<"+">>, W_println >>),
      Join(<< <<"D", "u", "p">> >>),
      Join(<< <<"s", "w", "a", "p", "_">> >>),
      Join(<< <<"1">>, <<"d", "u", "p", "2">> >>),
      Join(<< W_true, <<"t", "r", "u", "e", "x">> >>) \o <<"\n">>,
      <<"1", "\n", " ", "2", "\r", "\n", "+", " ", "+", "\n">>,
      <<"1", "\n", "\n", " ", " ", "x", "1">>,
      <<"1", " ", "1", "\n", "+", " ", "p", "r", "i", "n", "t", "l", "n", "\n">> }

\* the sources compile() may read
Sources == ShortSources \cup ArithmeticSources \cup ShuffleSources \cup Scenarios

(***************************************************************************)
(* The program                                                             *)
(***************************************************************************)
VARIABLES
    code_string,        \* the source read from the file
    debug_assertions,   \* the build: cfg(debug_assertions), with overflow checks
    verbose,            \* the --verbose flag
    scanner,            \* the Scanner's start, current, line, column
    token,              \* the token of the current iteration of compile()'s loop
    stack,              \* CompilerContext::stack, the type stack
    op_list,            \* VM::op_list
    had_error,          \* CompilerContext::had_error
    pc,                 \* where the process is
    fault,              \* the panic that ended the process, or "none"
    stdout,             \* the lines written to standard output
    stderr,             \* the lines and diagnostics written to standard error
    vstack,             \* the value stack of VM::run
    ip,                 \* the number of ops VM::run has executed
    tokens,             \* history: the tokens scan_token has returned
    type_hist           \* history: the type stack after each emitted op

vars ==
    <<code_string, debug_assertions, verbose, scanner, token, stack, op_list,
      had_error, pc, fault, stdout, stderr, vstack, ip, tokens, type_hist>>

Init ==
    /\ code_string \in Sources
    /\ debug_assertions \in BOOLEAN
    /\ verbose \in BOOLEAN
    /\ scanner = ScannerNew
    /\ token = NoToken
    /\ stack = <<>>
    /\ op_list = <<>>
    /\ had_error = FALSE
    /\ pc = "compile"
    /\ fault = "none"
    /\ stdout = <<>>
    /\ stderr = <<>>
    /\ vstack = <<>>
    /\ ip = 0
    /\ tokens = <<>>
    /\ type_hist = <<>>

\* the diagnostics of the calls of error() a handler made: the first call
\* that panics in get_code_at_line is the last
RECURSIVE Diagnostics(_, _, _)
Diagnostics(tok, code, msgs) ==
    IF msgs = <<>> THEN <<>>
    ELSE LET e == error(tok, code, Head(msgs)) IN
         IF e.panic THEN <<e.diag>>
         ELSE <<e.diag>> \o Diagnostics(tok, code, Tail(msgs))

\* the loop without the return after an error
after_match_no_return(had_error_now) == "compile"

\* compile() without the check of the type stack after its loop
after_loop_unchecked(type_stack) == "run"

\* the end of an iteration of compile()'s loop: return after an error,
\* else go round again
after_match(had_error_now) == IF had_error_now THEN "stopped" ELSE "compile"

\* compile() after its loop: return when data is left on the type stack,
\* else run the VM
after_loop(type_stack) == IF type_stack # <<>> THEN "unhandled" ELSE "run"

\* one iteration of the loop of compile(): scan a token, trace it, check
\* it, emit its op or report its error, and stop after an error
CompileStep ==
    /\ pc = "compile"
    /\ LET r == scan_token(code_string, scanner) IN
       /\ scanner' = r.sc
       /\ IF r.panic
          THEN /\ pc' = "panic in scan_token"
               /\ fault' = "byte index is not a char boundary"
               /\ UNCHANGED <<token, stack, op_list, had_error, stdout, stderr,
                              tokens, type_hist>>
          ELSE /\ token' = r.tok
               /\ tokens' = Append(tokens, r.tok)
               /\ stdout' = IF debug_assertions /\ verbose
                            THEN Append(stdout, OutLine("token", r.tok.text))
                            ELSE stdout
               /\ IF r.tok.token_type = "EndOfFile"
                  THEN /\ pc' = "end"
                       /\ UNCHANGED <<stack, op_list, had_error, fault, stderr, type_hist>>
                  ELSE LET h == compile_token(r.tok, stack, op_list)
                           d == Diagnostics(r.tok, code_string, h.errs)
                       IN  /\ stack' = h.stack
                           /\ op_list' = h.op_list
                           /\ type_hist' = IF Len(h.op_list) > Len(op_list)
                                           THEN Append(type_hist, h.stack)
                                           ELSE type_hist
                           /\ had_error' = (had_error \/ h.errs # <<>>)
                           /\ IF h.panic
                              THEN /\ pc' = "panic in push_op"
                                   /\ fault' = "unwrap on None"
                                   /\ stderr' = stderr
                              ELSE IF d # <<>> /\ ~Last(d).complete
                              THEN /\ pc' = "panic in error"
                                   /\ fault' = "unwrap on None"
                                   /\ stderr' = stderr \o d
                              ELSE /\ pc' = after_match(had_error \/ h.errs # <<>>)
                                   /\ fault' = fault
                                   /\ stderr' = stderr \o d \o
                                        (IF after_match(had_error \/ h.errs # <<>>) = "stopped"
                                         THEN <<PlainLine("Stopping execution")>>
                                         ELSE <<>>)
    /\ UNCHANGED <<code_string, debug_assertions, verbose, vstack, ip>>

\* compile() after its loop: a type stack that is not empty is reported,
\* else the timing line and the op listing are printed and VM::run begins
Finish ==
    /\ pc = "end"
    /\ pc' = after_loop(stack)
    /\ IF after_loop(stack) = "unhandled"
       THEN /\ stderr' = Append(stderr, PlainLine("Unhandled data on the stack"))
            /\ stdout' = stdout
       ELSE /\ stderr' = stderr
            /\ stdout' = stdout
                  \o (IF verbose THEN <<OutLine("timing", <<>>)>> ELSE <<>>)
                  \o (IF debug_assertions
                      THEN [i \in 1..Len(op_list) |-> OutLine("op", DisplayOp(op_list[i]))]
                      ELSE <<>>)
    /\ vstack' = <<>>
    /\ ip' = 0
    /\ UNCHANGED <<code_string, debug_assertions, verbose, scanner, token, stack,
                   op_list, had_error, fault, tokens, type_hist>>

\* one iteration of the loop of VM::run
RunStep ==
    /\ pc = "run"
    /\ ip < Len(op_list)
    /\ \E r \in run_op(vstack, op_list[ip + 1], debug_assertions) :
          /\ vstack' = r.vstack
          /\ stdout' = stdout \o r.out
          /\ fault' = r.fault
          /\ pc' = IF r.panic THEN "panic in run" ELSE "run"
          /\ ip' = IF r.panic THEN ip ELSE ip + 1
    /\ UNCHANGED <<code_string, debug_assertions, verbose, scanner, token, stack,
                   op_list, had_error, stderr, tokens, type_hist>>

\* VM::run returns when the op list is exhausted
RunEnd ==
    /\ pc = "run"
    /\ ip = Len(op_list)
    /\ pc' = "done"
    /\ UNCHANGED <<code_string, debug_assertions, verbose, scanner, token, stack,
                   op_list, had_error, fault, stdout, stderr, vstack, ip, tokens,
                   type_hist>>

Next == CompileStep \/ Finish \/ RunStep \/ RunEnd

Spec == Init /\ [][Next]_vars

(***************************************************************************)
(* Properties                                                              *)
(***************************************************************************)
\* VM::run has been invoked
RunInvoked == pc \in {"run", "done", "panic in run"}

\* the lines PrintLn ops have written
Printed == SelectSeq(stdout, LAMBDA l : l.kind = "println")

\* the data_type tags of a value stack
Tags(values) == [i \in 1..Len(values) |-> values[i].data_type]

\* the op VM::run executes next
NextOp == op_list[ip + 1]

\* the value stacks VM::run can hold after the first k of ops, run on an
\* empty stack, when none of them panicked
RECURSIVE Replay(_, _, _)
Replay(ops, k, overflow_checks) ==
    IF k = 0 THEN {<<>>}
    ELSE UNION { {r.vstack : r \in {x \in run_op(s, ops[k], overflow_checks) : ~x.panic}} :
                 s \in Replay(ops, k - 1, overflow_checks) }

\* C1: while VM::run executes an accepted program, after its first k ops
\* the tags of the value stack are the compiler's type stack as it was
\* right after the k-th op was emitted, and when run returns the value
\* stack is empty iff the compiler's final type stack is; the same holds of
\* the op list of every source whose token loop ended without an error,
\* run on an empty stack, data left on the type stack or not
C1_TypeStackRefinement ==
    /\ pc \in {"run", "done"} =>
          Tags(vstack) = IF ip = 0 THEN <<>> ELSE type_hist[ip]
    /\ pc = "done" => (ip = Len(op_list) /\ ((vstack = <<>>) <=> (stack = <<>>)))
    /\ pc = "end" =>
          /\ \A k \in 0..Len(op_list) :
                \A s \in Replay(op_list, k, debug_assertions) :
                    Tags(s) = IF k = 0 THEN <<>> ELSE type_hist[k]
          /\ \A s \in Replay(op_list, Len(op_list), debug_assertions) :
                (s = <<>>) <=> (stack = <<>>)

\* C1 witness: in the middle of a run the value stack holds a Bool above
\* an Int and the compiler's type stack held the same after that op
C1_Witness ==
    /\ pc = "run"
    /\ ip >= 4
    /\ ip < Len(op_list)
    /\ Len(vstack) >= 3
    /\ \E i \in 1..Len(vstack) - 1 :
          vstack[i].data_type = "Int" /\ vstack[i + 1].data_type = "Bool"
    /\ Tags(vstack) = type_hist[ip]

\* the number of values an op takes from the value stack, or reads on it
Needs(op) ==
    CASE op.op \in {"Add", "Subtract", "Multiply", "Divide", "Over", "Swap"} -> 2
      [] op.op \in {"PrintLn", "Dup", "Drop"} -> 1
      [] op.op = "Rot" -> 3
      [] OTHER -> 0

\* C2: VM::run never executes an op on a value stack too shallow for it:
\* the stack holds the 2, 1 or 3 values the op needs, Drop included, and no
\* unwrap or index fails
C2_StackDeepEnough ==
    /\ (pc = "run" /\ ip < Len(op_list)) => Len(vstack) >= Needs(NextOp)
    /\ pc = "panic in run" => fault \notin {"unwrap on None", "index out of bounds"}

\* C2 witness: Rot is about to execute on exactly three values
C2_Witness ==
    /\ pc = "run"
    /\ ip < Len(op_list)
    /\ NextOp.op = "Rot"
    /\ Len(vstack) = 3

\* C3: a run of an accepted program raises no fault but the division by
\* zero: every other Add, Subtract, Multiply and Divide completes
C3_OnlyDivideByZeroFaults ==
    pc = "panic in run" => (NextOp.op = "Divide" /\ fault = "attempt to divide by zero")

\* the diagnostics error() has written
ErrorCount == Len(SelectSeq(stderr, LAMBDA l : l.kind = "Compiler Error"))

\* C4: VM::run is invoked, and a PrintLn prints, only after scan_token has
\* returned the end-of-input token and no token raised an error; once a
\* token raised an error, run is never invoked and nothing is printed
C4_RunOnlyAfterCleanCompile ==
    /\ (RunInvoked \/ Printed # <<>>) =>
          /\ RunInvoked
          /\ token.token_type = "EndOfFile"
          /\ ~had_error
          /\ ErrorCount = 0
    /\ (had_error \/ ErrorCount > 0) => (~RunInvoked /\ Printed = <<>>)

\* C4 witness: compilation stopped at an error after a println was
\* accepted and emitted, and nothing was printed
C4_Witness ==
    /\ had_error
    /\ pc \in {"stopped", "panic in error"}
    /\ \E i \in 1..Len(op_list) : op_list[i].op = "PrintLn"
    /\ Printed = <<>>

\* C5: when the loop ends at end-of-input with entries on the type stack,
\* compile() reports "Unhandled data on the stack" and returns without
\* running the VM, so nothing is printed; run is invoked only with an empty
\* type stack
C5_UnhandledDataNotRun ==
    /\ RunInvoked => (stack = <<>> /\ token.token_type = "EndOfFile")
    /\ (token.token_type = "EndOfFile" /\ stack # <<>> /\ pc # "end") =>
          /\ pc = "unhandled"
          /\ stderr # <<>>
          /\ Last(stderr).kind = "Unhandled data on the stack"
          /\ Printed = <<>>

\* C5 witness: "Unhandled data" was reported for a program that holds an
\* accepted println
C5_Witness ==
    /\ pc = "unhandled"
    /\ stack # <<>>
    /\ \E i \in 1..Len(op_list) : op_list[i].op = "PrintLn"

\* C6: at most one diagnostic is ever written: the step in which a token
\* raises the first error writes exactly one and emits no op, and after it
\* nothing is scanned, checked, reported or emitted
C6_OnlyFirstErrorReported ==
    [][ /\ ErrorCount' <= 1
        /\ (~had_error /\ had_error') =>
              (ErrorCount' = 1 /\ op_list' = op_list /\ Len(tokens') = Len(tokens) + 1)
        /\ had_error => UNCHANGED <<scanner, token, tokens, stack, op_list, stderr>>
      ]_vars

\* C6 witness: compilation stopped with one diagnostic after ops had been
\* emitted
C6_Witness ==
    /\ pc = "stopped"
    /\ had_error
    /\ ErrorCount = 1
    /\ Len(op_list) >= 2

\* the value a run of digits denotes
RECURSIVE LiteralValue(_)
LiteralValue(text) ==
    IF text = <<>> THEN 0
    ELSE 10 * LiteralValue(Front(text)) + DigitValue(Last(text))

\* the per-token table: the op of each token that has one
TableOp(t) ==
    CASE t.token_type = "Dup" -> [op |-> "Dup"]
      [] t.token_type = "Drop" -> [op |-> "Drop"]
      [] t.token_type = "False" -> [op |-> "Push", value |-> [data_type |-> "Bool", data |-> 0]]
      [] t.token_type = "True" -> [op |-> "Push", value |-> [data_type |-> "Bool", data |-> 1]]
      [] t.token_type = "Int" ->
            [op |-> "Push", value |-> [data_type |-> "Int", data |-> LiteralValue(t.text)]]
      [] t.token_type = "Minus" -> [op |-> "Subtract"]
      [] t.token_type = "Plus" -> [op |-> "Add"]
      [] t.token_type = "Star" -> [op |-> "Multiply"]
      [] t.token_type = "Slash" -> [op |-> "Divide"]
      [] t.token_type = "Over" -> [op |-> "Over"]
      [] t.token_type = "Rot" -> [op |-> "Rot"]
      [] t.token_type = "Swap" -> [op |-> "Swap"]
      [] t.token_type = "PrintLn" -> [op |-> "PrintLn"]
      [] OTHER -> [op |-> "none"]

\* the tokens scanned so far but the end-of-input token and the token that
\* raised an error
EmittingTokens ==
    IF tokens # <<>> /\ (had_error \/ Last(tokens).token_type = "EndOfFile")
    THEN Front(tokens)
    ELSE tokens

ScenarioA == Join(<< <<"3">>, <<"4">>, <<"+">>, W_println >>)

\* the op list is the table's ops of the emitting tokens, in source order
OpsMirrorTokens ==
    /\ Len(op_list) = Len(EmittingTokens)
    /\ \A i \in 1..Len(op_list) : op_list[i] = TableOp(EmittingTokens[i])
    /\ (code_string = ScenarioA /\ token.token_type = "EndOfFile") =>
          op_list = << [op |-> "Push", value |-> [data_type |-> "Int", data |-> 3]],
                       [op |-> "Push", value |-> [data_type |-> "Int", data |-> 4]],
                       [op |-> "Add"], [op |-> "PrintLn"] >>

\* C7: at every point of the compile loop the op list holds, in source
\* order, the table's op of every token scanned so far that is neither
\* end-of-input nor the token that raised an error; ops are only appended
C7_OpListMirrorsTokens ==
    /\ []OpsMirrorTokens
    /\ [][ /\ Len(op_list') >= Len(op_list)
           /\ SubSeq(op_list', 1, Len(op_list)) = op_list ]_vars

\* C7 witness: three tokens emitted their ops and a fourth raised an error
C7_Witness ==
    /\ pc \in {"stopped", "panic in error"}
    /\ Len(tokens) = 4
    /\ Len(op_list) = 3
    /\ op_list[3].op = "Add"

\* the entries a word needs on the type stack, and its op
WordNeeds(t) ==
    CASE t \in {"Dup", "Drop", "PrintLn"} -> 1
      [] t \in {"Over", "Swap"} -> 2
      [] t = "Rot" -> 3

\* C8: dup, drop and println are a compile error iff the type stack is
\* empty, over and swap iff it has fewer than 2 entries, rot iff it has
\* fewer than 3, whatever the types; in every other case the op is emitted
C8_DepthPreconditions ==
    [][ (tokens' # tokens
         /\ token'.token_type \in {"Dup", "Drop", "PrintLn", "Over", "Swap", "Rot"}) =>
           /\ had_error' <=> (Len(stack) < WordNeeds(token'.token_type))
           /\ Len(stack) >= WordNeeds(token'.token_type) =>
                 op_list' = Append(op_list, [op |-> token'.token_type])
           /\ Len(stack) < WordNeeds(token'.token_type) => op_list' = op_list
      ]_vars

\* C8 witness: rot was accepted on exactly three entries, one of them Bool
C8_Witness ==
    /\ pc = "compile"
    /\ token.token_type = "Rot"
    /\ ~had_error
    /\ Len(stack) = 3
    /\ \E i \in 1..3 : stack[i] = "Bool"
    /\ op_list # <<>>
    /\ Last(op_list).op = "Rot"

\* the op of an arithmetic token
ArithmeticOp(t) ==
    CASE t = "Plus" -> "Add" [] t = "Minus" -> "Subtract"
      [] t = "Star" -> "Multiply" [] t = "Slash" -> "Divide"

\* C9: each of + - * / is accepted iff the type stack has at least 2
\* entries and its top two are both Int; on acceptance the top two entries
\* are replaced by one Int, the entries below are kept and the op is
\* emitted; otherwise the token is an error and emits nothing
C9_ArithmeticTypeCheck ==
    [][ (tokens' # tokens /\ token'.token_type \in {"Plus", "Minus", "Star", "Slash"}) =>
          LET n  == Len(stack)
              ok == n >= 2 /\ stack[n] = "Int" /\ stack[n - 1] = "Int"
          IN  /\ had_error' <=> ~ok
              /\ ok => /\ stack' = Append(SubSeq(stack, 1, n - 2), "Int")
                       /\ Len(stack') = n - 1
                       /\ Last(stack') = "Int"
                       /\ op_list' = Append(op_list, [op |-> ArithmeticOp(token'.token_type)])
              /\ ~ok => (op_list' = op_list /\ stack' = stack)
      ]_vars

\* C9 witness: + was accepted above a Bool entry, which is kept
C9_Witness ==
    /\ pc = "compile"
    /\ token.token_type = "Plus"
    /\ ~had_error
    /\ stack = <<"Bool", "Int">>
    /\ Last(op_list).op = "Add"

\* x and y are the same integer modulo 2^IntBits
SameMod(x, y) == (x - y) % Pow2(IntBits) = 0

\* the quotient of a by b # 0 rounded toward zero: a = q * b + r with
\* |r| < |b| and r zero or of the sign of a
TruncQuot(a, b) ==
    CHOOSE q \in (MinInt - 1)..(MaxInt + 1) :
        LET r == a - q * b IN
        /\ (IF r < 0 THEN 0 - r ELSE r) < (IF b < 0 THEN 0 - b ELSE b)
        /\ (r = 0 \/ (r < 0) = (a < 0))

ScenarioF == Join(<< <<"1">>, <<"2">>, W_swap, <<"-">>, W_println >>)
ScenarioB == Join(<< <<"1", "0">>, <<"2">>, <<"/">>, W_println >>)

\* C10: a binary op executed on a stack ending in a b (b on top) replaces
\* them by a op b, the deeper value the left operand: a + b, a - b, a * b in
\* the integer's width, the quotient a / b; `1 2 swap - println` prints 1
\* and `10 2 / println` prints 5
C10_LeftOperandIsDeeper ==
    [][ /\ (pc = "run" /\ pc' = "run" /\ ip' = ip + 1 /\ Len(vstack) >= 2
            /\ NextOp.op \in {"Add", "Subtract", "Multiply", "Divide"}) =>
              LET n == Len(vstack)
                  a == vstack[n - 1].data
                  b == vstack[n].data
                  r == Last(vstack').data
              IN  /\ Len(vstack') = n - 1
                  /\ SubSeq(vstack', 1, n - 2) = SubSeq(vstack, 1, n - 2)
                  /\ r \in IntRange
                  /\ NextOp.op = "Add" => SameMod(r, a + b)
                  /\ NextOp.op = "Subtract" => SameMod(r, a - b)
                  /\ NextOp.op = "Multiply" => SameMod(r, a * b)
                  /\ NextOp.op = "Divide" => r = TruncQuot(a, b)
        /\ (pc' = "done" /\ code_string = ScenarioF) =>
              Printed' = <<OutLine("println", <<"1">>)>>
        /\ (pc' = "done" /\ code_string = ScenarioB) =>
              Printed' = <<OutLine("println", <<"5">>)>>
      ]_vars

\* C10 witness: `1 2 swap - println` has run and printed 1
C10_Witness ==
    /\ pc = "done"
    /\ code_string = ScenarioF
    /\ Printed = <<OutLine("println", <<"1">>)>>

\* the magnitude of an integer
Magnitude(x) == IF x < 0 THEN 0 - x ELSE x

MinusSevenByTwo == Join(Operand(0 - 7) \o Operand(2) \o <<<<"/">>, W_println>>)

\* C11: a Divide executed on a b with b # 0 and a representable quotient
\* pushes the quotient truncated toward zero: its magnitude is
\* floor(|a| / |b|), and it is negative only when a and b differ in sign;
\* -7 divided by 2 gives -3
C11_DivideTruncates ==
    [][ /\ (pc = "run" /\ pc' = "run" /\ ip' = ip + 1 /\ Len(vstack) >= 2
            /\ NextOp.op = "Divide") =>
              LET a == vstack[Len(vstack) - 1].data
                  b == vstack[Len(vstack)].data
                  q == Last(vstack').data
              IN  /\ b # 0
                  /\ Magnitude(q) * Magnitude(b) <= Magnitude(a)
                  /\ Magnitude(a) < (Magnitude(q) + 1) * Magnitude(b)
                  /\ q < 0 => ((a < 0) # (b < 0))
                  /\ q > 0 => ((a < 0) = (b < 0))
        /\ (pc' = "done" /\ code_string = MinusSevenByTwo) =>
              Printed' = <<OutLine("println", <<"-", "3">>)>>
      ]_vars

\* C11 witness: -7 has been divided by 2 and -3 is on the stack
C11_Witness ==
    /\ pc = "run"
    /\ code_string = MinusSevenByTwo
    /\ ip >= 1
    /\ op_list[ip].op = "Divide"
    /\ vstack = <<[data_type |-> "Int", data |-> 0 - 3]>>

\* the effect of a shuffle op on a stack s, giving t: the entries below the
\* ones it names are kept
Shuffled(name, s, t) ==
    LET n == Len(s) IN
    CASE name = "Dup" ->
            /\ n >= 1 /\ Len(t) = n + 1
            /\ SubSeq(t, 1, n) = s
            /\ t[n + 1] = s[n]
      [] name = "Over" ->
            /\ n >= 2 /\ Len(t) = n + 1
            /\ SubSeq(t, 1, n) = s
            /\ t[n + 1] = s[n - 1]
      [] name = "Swap" ->
            /\ n >= 2 /\ Len(t) = n
            /\ SubSeq(t, 1, n - 2) = SubSeq(s, 1, n - 2)
            /\ t[n - 1] = s[n] /\ t[n] = s[n - 1]
      [] name = "Rot" ->
            /\ n >= 3 /\ Len(t) = n
            /\ SubSeq(t, 1, n - 3) = SubSeq(s, 1, n - 3)
            /\ t[n - 2] = s[n - 1] /\ t[n - 1] = s[n] /\ t[n] = s[n - 2]

\* C12: on the value stack and on the type stack alike, Dup turns .. a
\* into .. a a, Over .. a b into .. a b a, Swap .. a b into .. b a and Rot
\* .. a b c into .. b c a, every entry below unchanged
C12_ShufflesTouchOnlyTheTop ==
    [][ /\ (pc = "run" /\ pc' = "run" /\ ip' = ip + 1
            /\ NextOp.op \in {"Dup", "Over", "Swap", "Rot"}) =>
              Shuffled(NextOp.op, vstack, vstack')
        /\ (tokens' # tokens /\ ~had_error'
            /\ token'.token_type \in {"Dup", "Over", "Swap", "Rot"}) =>
              Shuffled(token'.token_type, stack, stack')
      ]_vars

\* C12 witness: Rot has run on four values, the lowest a Bool it left in
\* place
C12_Witness ==
    /\ pc = "run"
    /\ ip >= 1
    /\ op_list[ip].op = "Rot"
    /\ Len(vstack) = 4
    /\ vstack[1].data_type = "Bool"
    /\ vstack[4].data_type = "Int"

\* the newline bytes among the first i bytes of the source
NewlinesBefore(code, i) == {j \in 1..i : code[j] = "\n"}

\* the 1-based line and column of the byte at 0-based index i
LineOf(code, i) == 1 + Cardinality(NewlinesBefore(code, i))

ColumnOf(code, i) ==
    LET nl == NewlinesBefore(code, i) IN
    1 + i - (IF nl = {} THEN 0 ELSE CHOOSE j \in nl : \A k \in nl : k <= j)

\* C13: every token scan_token returns, the invalid-character token
\* included, carries the 1-based line and column of its first character
C13_TokenPosition ==
    \A i \in 1..Len(tokens) :
        /\ tokens[i].line = LineOf(code_string, tokens[i].start)
        /\ tokens[i].column = ColumnOf(code_string, tokens[i].start)

\* the first index at or after i that holds no space, carriage return or
\* newline
RECURSIVE AfterWhitespace(_, _)
AfterWhitespace(code, i) ==
    IF i < Len(code) /\ code[i + 1] \in {" ", "\r", "\n"}
    THEN AfterWhitespace(code, i + 1)
    ELSE i

\* a call of scan_token has returned a token
Returned == tokens' # tokens

\* the bytes the call consumed after the whitespace it skipped
Consumed == SubSeq(code_string, token'.start + 1, scanner'.current)

\* C14 as stated: the text of every token returned, the invalid-character
\* token included, is the substring the call consumed after skipping
\* whitespace, and its length the number of bytes consumed
C14_TextIsConsumed ==
    [][ Returned =>
          /\ token'.start = AfterWhitespace(code_string, scanner.current)
          /\ token'.length = scanner'.current - token'.start
          /\ token'.text = Consumed
      ]_vars

\* C14 amended: the length of every token returned is the number of bytes
\* consumed after skipping whitespace; the text is the substring consumed
\* for every kind but the invalid-character token, whose text is the fixed
\* string Error
C14_TextIsConsumedOrError ==
    [][ Returned =>
          /\ token'.start = AfterWhitespace(code_string, scanner.current)
          /\ token'.length = scanner'.current - token'.start
          /\ token'.token_type # "Error" => token'.text = Consumed
          /\ token'.token_type = "Error" =>
                /\ token'.text = <<"E", "r", "r", "o", "r">>
                /\ token'.length = 1
      ]_vars

\* C14 witness: a keyword of seven bytes returned after skipped whitespace,
\* its text the slice of the source
C14_Witness ==
    /\ token.token_type = "PrintLn"
    /\ token.start > 0
    /\ code_string[token.start] = " "
    /\ token.length = 7
    /\ token.text = SubSeq(code_string, token.start + 1, token.start + 7)
    /\ scanner.current = token.start + 7

\* the text of 1-based line l of the source, without its newline
LineText(code, l) ==
    LET nl    == {j \in 1..Len(code) : code[j] = "\n"}
        from  == IF l = 1 THEN 1
                 ELSE 1 + CHOOSE j \in nl : Cardinality({k \in nl : k < j}) = l - 2
        later == {j \in nl : j >= from}
        to    == IF later = {} THEN Len(code)
                 ELSE (CHOOSE j \in later : \A k \in later : j <= k) - 1
    IN  SubSeq(code, from, to)

\* C15: every compile error's diagnostic completes and reproduces the full
\* source line of the offending token, a last line without a newline
\* included
C15_DiagnosticReproducesLine ==
    /\ pc # "panic in error"
    /\ \A i \in 1..Len(stderr) :
          stderr[i].kind = "Compiler Error" =>
              /\ stderr[i].complete
              /\ stderr[i].code_line = LineText(code_string, stderr[i].line)

\* the bytes that start an integer literal, a word or an operator, or are
\* skipped as whitespace
Meaningful ==
    {" ", "\r", "\n", "+", "-", "*", "/"} \cup AsciiDigits \cup AsciiLetters

\* the byte the next call of scan_token meets after the whitespace, if any
NextByte ==
    LET i == AfterWhitespace(code_string, scanner.current) IN
    IF i < Len(code_string) THEN <<code_string[i + 1]>> ELSE <<>>

\* C16: on a byte that is no whitespace, digit, ASCII letter or operator,
\* scan_token does not fail: it returns an Error token of length 1 having
\* consumed that one byte, and compile() reports an invalid token
C16_OtherBytesAreErrorTokens ==
    [][ (pc = "compile" /\ NextByte # <<>> /\ NextByte[1] \notin Meaningful) =>
          /\ pc' # "panic in scan_token"
          /\ Returned
          /\ token'.token_type = "Error"
          /\ token'.length = 1
          /\ scanner'.current = AfterWhitespace(code_string, scanner.current) + 1
          /\ stderr' # stderr
          /\ stderr'[Len(stderr) + 1].kind = "Compiler Error"
          /\ stderr'[Len(stderr) + 1].message = <<"invalid token">>
      ]_vars

\* the length of the longest run of bytes of a class from 0-based index i
RECURSIVE RunLength(_, _, _)
RunLength(code, i, class) ==
    IF i < Len(code) /\ code[i + 1] \in class
    THEN 1 + RunLength(code, i + 1, class)
    ELSE 0

\* the kind of a word: the keyword it spells, else Identifier
KindOf(word) ==
    CASE word = <<"d", "u", "p">> -> "Dup"
      [] word = <<"d", "r", "o", "p">> -> "Drop"
      [] word = <<"f", "a", "l", "s", "e">> -> "False"
      [] word = <<"o", "v", "e", "r">> -> "Over"
      [] word = <<"p", "r", "i", "n", "t", "l", "n">> -> "PrintLn"
      [] word = <<"r", "o", "t">> -> "Rot"
      [] word = <<"s", "w", "a", "p">> -> "Swap"
      [] word = <<"t", "r", "u", "e">> -> "True"
      [] OTHER -> "Identifier"

TwelveDup == Join(<< <<"1", "2", "d", "u", "p">>, <<"+">>, W_println >>)

\* C17: a token starting with an ASCII letter is the longest run of ASCII
\* letters, digits and underscores, a keyword exactly when the run spells
\* one, else an Identifier, which compile() rejects; a token starting with
\* a digit is the longest run of digits, so 12dup is Int 12 then dup
C17_WordsAndNumbers ==
    [][ Returned =>
          LET first == <<code_string[token'.start + 1]>> IN
          /\ (token'.token_type # "EndOfFile" /\ first[1] \in AsciiLetters) =>
                /\ token'.length =
                      RunLength(code_string, token'.start,
                                AsciiLetters \cup AsciiDigits \cup {"_"})
                /\ token'.token_type = KindOf(token'.text)
          /\ (token'.token_type # "EndOfFile" /\ first[1] \in AsciiDigits) =>
                /\ token'.length = RunLength(code_string, token'.start, AsciiDigits)
                /\ token'.token_type = "Int"
          /\ token'.token_type = "Identifier" =>
                /\ had_error'
                /\ op_list' = op_list
                /\ pc' # "compile"
                /\ stderr'[Len(stderr) + 1].message =
                      <<"identifiers are not implemented yet">>
          /\ (code_string = TwelveDup /\ Len(tokens') = 2) =>
                /\ tokens'[1].token_type = "Int"
                /\ tokens'[1].text = <<"1", "2">>
                /\ tokens'[2].token_type = "Dup"
                /\ tokens'[2].text = <<"d", "u", "p">>
      ]_vars

\* C17 witness: the word truex has been scanned whole as an Identifier and
\* rejected with a Bool on the type stack
C17_Witness ==
    /\ token.token_type = "Identifier"
    /\ token.text = <<"t", "r", "u", "e", "x">>
    /\ stack = <<"Bool">>
    /\ had_error
    /\ pc = "stopped"

\* C18: an integer literal is accepted exactly when the value of its digit
\* run is at most the largest i64; it then pushes Int and emits Push of
\* that value, never negative; a larger run is rejected as a positive
\* overflow, emits no op and leaves the type stack as it was
C18_LiteralsUpToMax ==
    [][ (Returned /\ token'.token_type = "Int") =>
          LET v == LiteralValue(token'.text) IN
          IF v <= MaxInt
          THEN /\ ~had_error'
               /\ stack' = Append(stack, "Int")
               /\ op_list' = Append(op_list, [op |-> "Push",
                                 value |-> [data_type |-> "Int", data |-> v]])
               /\ v >= 0
          ELSE /\ had_error'
               /\ op_list' = op_list
               /\ stack' = stack
               /\ stderr'[Len(stderr) + 1].message = <<"positive integer out of range">>
      ]_vars

\* C18 witness: the largest value written with a leading zero has been
\* accepted
C18_Witness ==
    /\ token.token_type = "Int"
    /\ token.text = <<"0">> \o Max
    /\ ~had_error
    /\ stack = <<"Int">>
    /\ op_list = <<[op |-> "Push", value |-> [data_type |-> "Int", data |-> MaxInt]]>>

\* the lines of stdout of a kind
Lines(kind) == SelectSeq(stdout, LAMBDA l : l.kind = kind)

\* C19: with verbose off stdout holds the lines of the PrintLn ops and
\* nothing else; in every build the token trace, the timing line and the
\* op listing are printed exactly when verbose is on
C19_VerboseGatesTrace ==
    /\ ~verbose => stdout = Printed
    /\ (verbose /\ RunInvoked) =>
          /\ Len(Lines("token")) = Len(tokens)
          /\ Len(Lines("timing")) = 1
          /\ Len(Lines("op")) = Len(op_list)

\* C20: a call of scan_token that returns a token other than end of input
\* moves current forward, with 0 <= start <= current <= the source length,
\* so at most length + 1 tokens are returned and every iteration of the
\* compile loop that does not leave it has moved current; at end of input
\* the loop is left, and a further call returns end of input again with
\* current, line and column as they were
C20_ScanningTerminates ==
    /\ [](/\ 0 <= scanner.start
          /\ scanner.start <= scanner.current
          /\ scanner.current <= Len(code_string)
          /\ Len(tokens) <= Len(code_string) + 1
          /\ \A i \in 1..(Len(tokens) - 1) : tokens[i].token_type # "EndOfFile"
          /\ token.token_type = "EndOfFile" =>
                /\ pc # "compile"
                /\ LET again == scan_token(code_string, scanner) IN
                   /\ ~again.panic
                   /\ again.tok.token_type = "EndOfFile"
                   /\ again.sc.current = scanner.current
                   /\ again.sc.line = scanner.line
                   /\ again.sc.column = scanner.column)
    /\ [][ /\ (Returned /\ token'.token_type # "EndOfFile") =>
                scanner'.current > scanner.current
           /\ (pc = "compile" /\ pc' = "compile") =>
                scanner'.current > scanner.current
         ]_vars

\* C20 witness: end of input has been returned after the trailing newline
\* was skipped, the source of two lines scanned to its end
C20_Witness ==
    /\ token.token_type = "EndOfFile"
    /\ Len(tokens) = 5
    /\ scanner.line = 3
    /\ scanner.current = Len(code_string)
    /\ pc = "end"

\* the token just returned raised the compile error
Raised == Returned /\ ~had_error /\ had_error'

\* the failing preconditions, told by the first diagnostic of the token
Failure ==
    LET m == stderr'[Len(stderr) + 1].message
        t == token'.token_type
    IN  CASE t = "Error" -> "invalid token"
          [] t = "Identifier" -> "identifier"
          [] t = "Int" -> "unparsable integer"
          [] Len(m) >= 1
             /\ m[1] \in {"expected integer on top of the stack to perform",
                          "expected integer one down from the top of the stack to perform"}
               -> "non-Int operand"
          [] OTHER -> "too few entries"

\* C21: the token that raises a compile error leaves the type stack and
\* the op list exactly as they were before it was scanned, whatever its
\* kind and whichever precondition failed; nothing is run
C21_ErrorChangesNothing ==
    [][ Raised =>
          /\ stack' = stack
          /\ op_list' = op_list
          /\ type_hist' = type_hist
          /\ vstack' = vstack /\ ip' = ip
          /\ stderr' # stderr
          /\ Failure \in {"invalid token", "identifier", "unparsable integer",
                          "non-Int operand", "too few entries"}
          /\ Failure = "too few entries" => Len(stack) < 3
          /\ Failure = "non-Int operand" =>
                /\ Len(stack) >= 2
                /\ "Bool" \in {stack[Len(stack)], stack[Len(stack) - 1]}
      ]_vars

\* C21 witness: a subtraction was refused for the Bool on top of two Ints,
\* the three entries and the three Push ops still in place
C21_Witness ==
    /\ had_error
    /\ token.token_type = "Minus"
    /\ stack = <<"Int", "Int", "Bool">>
    /\ Len(op_list) = 3
    /\ op_list[3] = [op |-> "Push", value |-> [data_type |-> "Bool", data |-> 1]]
    /\ Len(stderr) >= 1
    /\ stderr[1].message[1] = "expected integer on top of the stack to perform"

====
